---- MODULE Spec2Model ----
(***************************************************************************)
(* Real-time notification pipeline of the admin application:               *)
(*   - WebSocketService   (services/websocket)                             *)
(*   - useNotifications   (hooks/useNotifications.ts)                      *)
(*   - the auth store fields the two read (store/authStore.ts)             *)
(*                                                                         *)
(* Sockets are objects created by io(); the transport is the environment:  *)
(* it raises 'connect', 'connect_error', 'disconnect' and 'notification'   *)
(* on any socket that still has handlers attached.  io() is called with    *)
(* the library's default reconnection, so a socket whose handshake failed  *)
(* for a transport reason, or that lost its transport, goes on trying by   *)
(* itself ("connecting"); a socket the server rejected or closed, or the   *)
(* client closed, is "closed" for good.  setTimeout callbacks are kept in  *)
(* deadline order and run from the head of that order.                     *)
(***************************************************************************)
EXTENDS Integers, Sequences, FiniteSets, TLC

\* ---------------------------------------------------------------- bounds
MaxSockets == 2
MaxTimers == 2
MaxListeners == 2
MaxIds == 2
MaxCalls == 2
MaxAccepts == 2
ExtraIds == 2

\* ------------------------------------------------------ program constants
maxReconnectAttempts == 5
BaseReconnectDelay == 1000
KeptOnInsert == 49
ToastCap == 100

DefaultVolume == 7
DefaultRate == 10
MinVolume == 0
MaxVolume == 10
SoundKey == "notification-settings"
SpeechKey == "speechNotificationSettings"

AdminRoom == "admin_orders"
Rooms == {AdminRoom, "store_orders"}

Sockets == 1..MaxSockets
Listeners == 1..MaxListeners
Ids == 1..MaxIds

VARIABLES
  token,                    \* authStore: token (user and isAuthenticated move with it)
  socket,                   \* WebSocketService.socket: 0 is null, else a socket object
  sockSt,                   \* per socket object: "free", "connecting", "connected", "closed"
  isConnected,              \* WebSocketService.isConnected
  reconnectAttempts,        \* WebSocketService.reconnectAttempts
  reconnectDelay,           \* WebSocketService.reconnectDelay
  timers,                   \* pending setTimeout callbacks of handleReconnect, by deadline
  notificationCallbacks,    \* WebSocketService.notificationCallbacks (hook instances)
  connectionCallbacks,      \* WebSocketService.connectionCallbacks (hook instances)
  mounted,                  \* hook instances mounted: globalStateSetters, globalToastSetters
  globalNotificationState,  \* [isConnected, notifications, unreadCount]
  local,                    \* per hook instance: its useState copy of the global state
  globalShownToasts,        \* the Set of shown ids, in insertion order
  soundEnabled,             \* soundNotificationService.notificationSettings.enabled
  speechEnabled,            \* speechNotificationService.isEnabled()
  lastOp,                   \* history: the service operation that produced this state
                            \*   ("hook" for an operation of the hook)
  attemptsSinceConnect,     \* history: reconnects scheduled since the last 'connect' event
  fifthSockets,             \* history: the sockets the fifth reconnect of this run created
  explicitlyDisconnected,   \* history: disconnect() was called and connect() not since
  calls,                    \* history: per instance and id, invocations of its callback
  tones,                    \* history: per id, tones dispatched
  speeches,                 \* history: per id, utterances dispatched
  toasts,                   \* history: per id, toasts dispatched
  accepted,                 \* history: the ids that passed the shown-toasts check, in order
  sent,                     \* the frames the last step handed to this.socket with emit()
  desiredRooms,             \* history: rooms asked for (joinRoom, line 71) and not left since
  notified,                 \* history: the connection callbacks the last step ran, in order
  invoked,                  \* history: the notification callbacks the last step ran, in order
  speechQueue,              \* window.speechSynthesis: utterances speaking or queued (by id)
  lastStarted,              \* history: the utterance handed to speechSynthesis.speak() last
  cancelled,                \* history: the utterances the last cancel() removed unended
  audioContext,             \* soundNotificationService.audioContext is not null
  lastSound,                \* what the last playNotificationSound call made audible
  toneOf,                   \* history: per kind, the audio element last chosen for a frame
  soundVolume,              \* soundNotificationService.notificationSettings.volume, in tenths
  soundType,                \* soundNotificationService.notificationSettings.soundType
  speechVoice,              \* speechNotificationService.settings.voice
  speechRate,               \* speechNotificationService.settings.rate, in tenths
  storage,                  \* localStorage: key -> stored text, for the keys that are set
  globalSettings            \* globalNotificationState.settings

connVars == <<socket, sockSt, isConnected, fifthSockets>>
retryVars == <<reconnectAttempts, reconnectDelay, timers, attemptsSinceConnect>>
cbVars == <<notificationCallbacks, connectionCallbacks>>
hookVars == <<mounted, globalNotificationState, local, globalShownToasts>>
settingVars == <<soundEnabled, speechEnabled>>
alertVars == <<calls, tones, speeches, toasts, accepted>>
roomVars == <<sent, desiredRooms>>
audioVars == <<speechQueue, lastStarted, cancelled, audioContext, lastSound, toneOf>>
storeVars == <<soundVolume, soundType, speechVoice, speechRate, storage, globalSettings>>
vars == <<token, connVars, retryVars, cbVars, hookVars, settingVars, alertVars,
          lastOp, explicitlyDisconnected, roomVars, notified, invoked, audioVars,
          storeVars>>

\* ---------------------------------------------------------------- helpers
RECURSIVE Pow2(_)
Pow2(n) == IF n <= 0 THEN 1 ELSE 2 * Pow2(n - 1)

Range(q) == {q[i] : i \in 1..Len(q)}

Remove(q, x) == SelectSeq(q, LAMBDA y : y # x)

InsertAt(q, p, x) == SubSeq(q, 1, p - 1) \o <<x>> \o SubSeq(q, p, Len(q))

\* The elements of a set of instances in ascending (component tree) order.
RECURSIVE Ascending(_)
Ascending(S) ==
  IF S = {} THEN <<>>
  ELSE LET m == CHOOSE x \in S : \A y \in S : x <= y
       IN  <<m>> \o Ascending(S \ {m})

Count(f, x) == IF x \in DOMAIN f THEN f[x] ELSE 0

Occurrences(q, x) == Cardinality({i \in 1..Len(q) : q[i] = x})

Bump(f, x) == [y \in DOMAIN f \cup {x} |-> IF y = x THEN Count(f, x) + 1 ELSE f[y]]

Live(st) == {s \in Sockets : st[s] \in {"connecting", "connected"}}

\* A closed socket nothing refers to any more raises no further event.
Release(st, cur) ==
  [s \in Sockets |-> IF st[s] = "closed" /\ s # cur THEN "free" ELSE st[s]]

Op(name) == [op |-> name, reason |-> "none", fifth |-> FALSE, full |-> FALSE]

\* A step that calls neither emit() nor joinRoom / leaveRoom.
NoFrames == sent' = <<>> /\ UNCHANGED desiredRooms

\* A step that runs no notification callback and neither plays nor speaks.
NoDispatch == invoked' = <<>> /\ UNCHANGED audioVars

EmptyState == [isConnected |-> FALSE, notifications |-> <<>>, unreadCount |-> 0]

\* globalStateSetters.forEach(setter => setter(globalNotificationState))
Broadcast(loc, who, g) == [i \in Listeners |-> IF i \in who THEN g ELSE loc[i]]

\* ------------------------------------------------------------------------
\* The part of the state a sequence of connect()/disconnect() calls and the
\* connection callbacks they raise works on; ok turns FALSE when a call
\* would need more socket objects than MaxSockets.
Ctx ==
  [socket |-> socket, sockSt |-> sockSt, fifthSockets |-> fifthSockets,
   isConnected |-> isConnected, g |-> globalNotificationState,
   loc |-> local, notified |-> <<>>, ok |-> TRUE]

SetCtx(c) ==
  /\ c.ok
  /\ socket' = c.socket
  /\ sockSt' = c.sockSt
  /\ fifthSockets' = c.fifthSockets
  /\ isConnected' = c.isConnected
  /\ globalNotificationState' = c.g
  /\ local' = c.loc
  /\ notified' = c.notified

\* ------------------------------------------------------- useNotifications
\* handleConnectionChange, once per registered connection callback
handleConnectionChange(c, connected, cbs, setters) ==
  IF cbs = <<>> THEN c
  ELSE LET g2 == [c.g EXCEPT !.isConnected = connected]
       IN  [c EXCEPT !.g = g2, !.loc = Broadcast(c.loc, setters, g2),
                     !.notified = c.notified \o cbs]

\* --------------------------------------------------------- WebSocketService
\* socket?.connected
SocketConnected(c) == c.socket # 0 /\ c.sockSt[c.socket] = "connected"

\* initializeConnection(): a new socket object replaces this.socket; the
\* previous object is neither closed nor stripped of its handlers.
initializeConnection(c, tok, fifth) ==
  IF ~tok THEN c
  ELSE LET st == Release(c.sockSt, 0)
       IN  IF \A s \in Sockets : st[s] # "free" THEN [c EXCEPT !.ok = FALSE]
           ELSE LET s == CHOOSE x \in Sockets :
                           /\ st[x] = "free"
                           /\ \A r \in Sockets : st[r] = "free" => x <= r
                IN  [c EXCEPT !.socket = s,
                              !.sockSt = [st EXCEPT ![s] = "connecting"],
                              !.fifthSockets = IF fifth THEN c.fifthSockets \cup {s}
                                               ELSE c.fifthSockets \ {s}]

\* connect()
connectCall(c, tok) ==
  IF SocketConnected(c) THEN c ELSE initializeConnection(c, tok, FALSE)

\* disconnect(): socket.disconnect() raises 'disconnect' with reason
\* "io client disconnect" on a connected socket; that handler clears
\* isConnected, runs the connection callbacks and does not reconnect.
disconnectCall(c, cbs, setters) ==
  IF c.socket = 0 THEN c
  ELSE LET c1 == IF SocketConnected(c)
                 THEN handleConnectionChange(c, FALSE, cbs, setters)
                 ELSE c
       IN  [c1 EXCEPT !.sockSt = Release([c.sockSt EXCEPT ![c.socket] = "closed"], 0),
                      !.socket = 0,
                      !.isConnected = FALSE]

\* A backoff that grows linearly instead of doubling.
ReconnectDelayFor_Linear(attempt) == reconnectDelay * attempt

\* const delay = this.reconnectDelay * Math.pow(2, this.reconnectAttempts - 1)
ReconnectDelayFor(attempt) == reconnectDelay * Pow2(attempt - 1)

\* A guard that lets one attempt too many through.
AttemptsExhausted_OffByOne == reconnectAttempts > maxReconnectAttempts

\* if (this.reconnectAttempts >= this.maxReconnectAttempts) return
AttemptsExhausted == reconnectAttempts >= maxReconnectAttempts

\* Where a timer of the given delay may stand in deadline order: behind every
\* pending timer whose delay is not longer (it was set earlier and runs out
\* no later), anywhere among the others.
InsertPositions(delay) ==
  LET notLater == {i \in 1..Len(timers) : timers[i].delay <= delay}
      first == IF notLater = {} THEN 1
               ELSE 1 + CHOOSE i \in notLater : \A j \in notLater : j <= i
  IN  first..(Len(timers) + 1)

\* handleReconnect()
handleReconnect ==
  IF AttemptsExhausted
  THEN UNCHANGED <<reconnectAttempts, timers, attemptsSinceConnect>>
  ELSE /\ Len(timers) < MaxTimers
       /\ reconnectAttempts' = reconnectAttempts + 1
       /\ attemptsSinceConnect' = attemptsSinceConnect + 1
       /\ \E p \in InsertPositions(ReconnectDelayFor(reconnectAttempts + 1)) :
            timers' = InsertAt(timers, p,
                        [delay |-> ReconnectDelayFor(reconnectAttempts + 1),
                         k |-> attemptsSinceConnect + 1,
                         live |-> TRUE])

\* the setTimeout callback of handleReconnect
TimerFire ==
  /\ timers # <<>>
  /\ timers' = Tail(timers)
  /\ SetCtx(initializeConnection(Ctx, token,
                                 Head(timers).live /\ Head(timers).k = 5))
  /\ UNCHANGED storeVars
  /\ NoFrames
  /\ NoDispatch
  /\ lastOp' = Op("timer")
  /\ UNCHANGED <<token, reconnectAttempts, reconnectDelay, attemptsSinceConnect,
                 cbVars, mounted, globalShownToasts, settingVars, alertVars,
                 explicitlyDisconnected>>

\* socket.on('connect', ...)
SocketConnect(s) ==
  /\ sockSt[s] = "connecting"
  /\ SetCtx(handleConnectionChange(
              [Ctx EXCEPT !.sockSt = [sockSt EXCEPT ![s] = "connected"],
                          !.isConnected = TRUE,
                          !.fifthSockets = {}],
              TRUE, connectionCallbacks, mounted))
  /\ reconnectAttempts' = 0
  /\ reconnectDelay' = BaseReconnectDelay
  /\ attemptsSinceConnect' = 0
  /\ timers' = [i \in 1..Len(timers) |-> [timers[i] EXCEPT !.live = FALSE]]
  /\ UNCHANGED storeVars
  /\ sent' = IF socket = 0 THEN <<>> ELSE <<[ev |-> "join_room", room |-> AdminRoom]>>
  /\ UNCHANGED desiredRooms
  /\ NoDispatch
  /\ lastOp' = Op("connect_event")
  /\ UNCHANGED <<token, cbVars, mounted, globalShownToasts, settingVars, alertVars,
                 explicitlyDisconnected>>

\* socket.on('connect_error', ...); final: the server rejected the handshake
SocketConnectError(s, final) ==
  /\ sockSt[s] = "connecting"
  /\ SetCtx(handleConnectionChange(
              [Ctx EXCEPT !.sockSt = IF final
                                    THEN Release([sockSt EXCEPT ![s] = "closed"], socket)
                                    ELSE sockSt,
                          !.isConnected = FALSE],
              FALSE, connectionCallbacks, mounted))
  /\ handleReconnect
  /\ UNCHANGED storeVars
  /\ NoFrames
  /\ NoDispatch
  /\ lastOp' = [Op("connect_error") EXCEPT !.fifth = s \in fifthSockets,
                                           !.full = AttemptsExhausted]
  /\ UNCHANGED <<token, reconnectDelay, cbVars, mounted, globalShownToasts,
                 settingVars, alertVars, explicitlyDisconnected>>

DisconnectReasons == {"io server disconnect", "transport close", "ping timeout"}

\* socket.on('disconnect', ...) raised by the transport
SocketDisconnect(s, reason) ==
  /\ sockSt[s] = "connected"
  /\ SetCtx(handleConnectionChange(
              [Ctx EXCEPT !.sockSt = IF reason = "io server disconnect"
                                    THEN Release([sockSt EXCEPT ![s] = "closed"], socket)
                                    ELSE [sockSt EXCEPT ![s] = "connecting"],
                          !.isConnected = FALSE],
              FALSE, connectionCallbacks, mounted))
  /\ IF reason = "io server disconnect"
     THEN handleReconnect
     ELSE UNCHANGED <<reconnectAttempts, timers, attemptsSinceConnect>>
  /\ UNCHANGED storeVars
  /\ NoFrames
  /\ NoDispatch
  /\ lastOp' = [Op("disconnect_event") EXCEPT !.reason = reason,
                                              !.full = AttemptsExhausted]
  /\ UNCHANGED <<token, reconnectDelay, cbVars, mounted, globalShownToasts,
                 settingVars, alertVars, explicitlyDisconnected>>

\* connect(), called by the host
connect ==
  /\ SetCtx(connectCall(Ctx, token))
  /\ UNCHANGED storeVars
  /\ NoFrames
  /\ NoDispatch
  /\ lastOp' = [Op("connect") EXCEPT
                  !.reason = IF lastOp.op = "disconnect" THEN "after disconnect"
                             ELSE "none"]
  /\ explicitlyDisconnected' = FALSE
  /\ UNCHANGED <<token, retryVars, cbVars, mounted, globalShownToasts, settingVars,
                 alertVars>>

\* disconnect(), called by the host
disconnect ==
  /\ SetCtx(disconnectCall(Ctx, connectionCallbacks, mounted))
  /\ UNCHANGED storeVars
  /\ NoFrames
  /\ NoDispatch
  /\ lastOp' = Op("disconnect")
  /\ explicitlyDisconnected' = TRUE
  /\ UNCHANGED <<token, retryVars, cbVars, mounted, globalShownToasts, settingVars,
                 alertVars>>

\* joinRoom(roomName), called by the host
joinRoom(r) ==
  /\ sent' = IF SocketConnected(Ctx) THEN <<[ev |-> "join_room", room |-> r]>> ELSE <<>>
  /\ desiredRooms' = desiredRooms \cup {r}
  /\ notified' = <<>>
  /\ NoDispatch
  /\ UNCHANGED storeVars
  /\ lastOp' = Op("joinRoom")
  /\ UNCHANGED <<token, connVars, retryVars, cbVars, hookVars, settingVars, alertVars,
                 explicitlyDisconnected>>

\* leaveRoom(roomName), called by the host
leaveRoom(r) ==
  /\ sent' = IF SocketConnected(Ctx) THEN <<[ev |-> "leave_room", room |-> r]>> ELSE <<>>
  /\ desiredRooms' = desiredRooms \ {r}
  /\ notified' = <<>>
  /\ NoDispatch
  /\ UNCHANGED storeVars
  /\ lastOp' = Op("leaveRoom")
  /\ UNCHANGED <<token, connVars, retryVars, cbVars, hookVars, settingVars, alertVars,
                 explicitlyDisconnected>>

\* ---------------------------------------------------------- settings store
\* The settings the two services hold in memory.
notificationSettings ==
  [enabled |-> soundEnabled, volume |-> soundVolume, soundType |-> soundType]

speechSettings ==
  [enabled |-> speechEnabled, voice |-> speechVoice, rate |-> speechRate]

DefaultNotificationSettings ==
  [enabled |-> TRUE, volume |-> DefaultVolume, soundType |-> "default"]

DefaultSpeechSettings == [enabled |-> TRUE, voice |-> "default", rate |-> DefaultRate]

\* JSON.stringify / JSON.parse of a boolean, of a number of tenths (written
\* with its integer part and one decimal) and of a string
BoolText(b) == IF b THEN "true" ELSE "false"
TextBool(t) == t = "true"
NumText(n) == <<n \div 10, n % 10>>
TextNum(t) == 10 * t[1] + t[2]
StrText(x) == <<"\"", x, "\"">>
TextStr(t) == t[2]

\* JSON.stringify(this.notificationSettings) and JSON.parse of it
StringifySound(x) ==
  [enabled |-> BoolText(x.enabled), volume |-> NumText(x.volume),
   soundType |-> StrText(x.soundType)]
ParseSound(t) ==
  [enabled |-> TextBool(t.enabled), volume |-> TextNum(t.volume),
   soundType |-> TextStr(t.soundType)]

\* JSON.stringify(this.settings) and JSON.parse of it
StringifySpeech(x) ==
  [enabled |-> BoolText(x.enabled), voice |-> StrText(x.voice), rate |-> NumText(x.rate)]
ParseSpeech(t) ==
  [enabled |-> TextBool(t.enabled), voice |-> TextStr(t.voice), rate |-> TextNum(t.rate)]

\* localStorage.setItem(key, text)
SetItem(store, key, text) ==
  [k \in DOMAIN store \cup {key} |-> IF k = key THEN text ELSE store[k]]

\* { ...target, ...partial }: the fields of partial that are set win
Merged(target, fields, partial) ==
  [f \in DOMAIN target |-> IF f \in fields THEN partial[f] ELSE target[f]]

\* Math.max(0, Math.min(1, volume))
Clamp(v) == IF v < MinVolume THEN MinVolume ELSE IF v > MaxVolume THEN MaxVolume ELSE v

\* A setSettings that changes the settings in memory and does not save them.
setSettings_NoSave(st, x) == st

\* setSettings(settings): this.notificationSettings is x afterwards; saveSettings()
setSettings(st, x) == SetItem(st, SoundKey, StringifySound(x))

\* updateSettings(settings): this.settings is x afterwards; saveSettings()
updateSettings(st, x) == SetItem(st, SpeechKey, StringifySpeech(x))

\* loadSettings() of the sound service
LoadedSound(st) ==
  IF SoundKey \in DOMAIN st
  THEN Merged(DefaultNotificationSettings, {"enabled", "volume", "soundType"},
              ParseSound(st[SoundKey]))
  ELSE DefaultNotificationSettings

\* loadSettings() of the speech service
LoadedSpeech(st) ==
  IF SpeechKey \in DOMAIN st
  THEN Merged(DefaultSpeechSettings, {"enabled", "voice", "rate"},
              ParseSpeech(st[SpeechKey]))
  ELSE DefaultSpeechSettings

\* The settings object of the hook as read from the two services
ServiceSettings(snd, spc) ==
  [soundEnabled |-> snd.enabled, volume |-> snd.volume, soundType |-> snd.soundType,
   speechEnabled |-> spc.enabled, speechVoice |-> spc.voice, speechRate |-> spc.rate]

SettingFields ==
  {"soundEnabled", "volume", "soundType", "speechEnabled", "speechVoice", "speechRate"}

\* The values a caller of updateSoundSettings passes.
SettingValues ==
  [soundEnabled : BOOLEAN, volume : {3, 15}, soundType : {"chime"},
   speechEnabled : BOOLEAN, speechVoice : {"Alex"}, speechRate : {15}]

\* updateSoundSettings(settings); fields are the fields of settings that
\* are not undefined
updateSoundSettings(fields, v) ==
  /\ mounted # {}
  /\ LET snd == [enabled |-> IF "soundEnabled" \in fields THEN v.soundEnabled
                             ELSE soundEnabled,
                 volume |-> IF "volume" \in fields THEN Clamp(v.volume) ELSE soundVolume,
                 soundType |-> IF "soundType" \in fields THEN v.soundType ELSE soundType]
         spc == [enabled |-> IF "speechEnabled" \in fields THEN v.speechEnabled
                             ELSE speechEnabled,
                 voice |-> IF "speechVoice" \in fields THEN v.speechVoice ELSE speechVoice,
                 rate |-> IF "speechRate" \in fields THEN v.speechRate ELSE speechRate]
         st1 == IF fields \cap {"soundEnabled", "volume", "soundType"} # {}
                THEN setSettings(storage, snd) ELSE storage
         st2 == IF fields \cap {"speechEnabled", "speechVoice", "speechRate"} # {}
                THEN updateSettings(st1, spc) ELSE st1
     IN  /\ soundEnabled' = snd.enabled
         /\ soundVolume' = snd.volume
         /\ soundType' = snd.soundType
         /\ speechEnabled' = spc.enabled
         /\ speechVoice' = spc.voice
         /\ speechRate' = spc.rate
         /\ storage' = st2
  /\ globalSettings' = Merged(globalSettings, fields, v)
  /\ NoFrames
  /\ notified' = <<>>
  /\ NoDispatch
  /\ lastOp' = Op("hook")
  /\ UNCHANGED <<token, connVars, retryVars, cbVars, hookVars, alertVars,
                 explicitlyDisconnected>>

\* ------------------------------------------------------- useNotifications
\* The part of the state one fan-out of a notification frame works on;
\* fired records that the toast setters ran (every mounted instance then
\* re-renders with a new handleNotification).
Hx ==
  [window |-> globalShownToasts, g |-> globalNotificationState,
   calls |-> calls, tones |-> tones, speeches |-> speeches, toasts |-> toasts,
   accepted |-> accepted, fired |-> FALSE,
   invoked |-> <<>>, thrown |-> FALSE, play |-> "plays",
   queue |-> speechQueue, started |-> lastStarted, cancelled |-> cancelled,
   sound |-> lastSound, toneOf |-> toneOf]

Min(a, b) == IF a <= b THEN a ELSE b

\* A prepend that keeps every earlier entry.
Prepend_KeepAll(list, entry) == <<entry>> \o list

\* [notification, ...notifications.slice(0, 49)]
Prepend(list, entry) == <<entry>> \o SubSeq(list, 1, Min(KeptOnInsert, Len(list)))

\* globalShownToasts.has(notification.id)
AlreadyShown(window, id) == id \in Range(window)

\* playFallbackSound(): a beep from the AudioContext when there is one
playFallbackSound(h) == [h EXCEPT !.sound = IF audioContext THEN "beep" ELSE "silent"]

\* this.audioElements.get(this.notificationSettings.soundType): the audio
\* element played for an event of the given kind
AudioElementFor(type) == soundType

\* playNotificationSound(_type); h.play is what audio.play() does this time:
\* "plays", "rejects" (the promise rejects) or "throws"
playNotificationSound(h, id, type) ==
  IF ~soundEnabled THEN [h EXCEPT !.sound = "off"]
  ELSE LET h1 == [h EXCEPT !.tones = Bump(h.tones, id),
                           !.toneOf = SetItem(h.toneOf, type, AudioElementFor(type))]
       IN  IF h.play = "plays" THEN [h1 EXCEPT !.sound = "tone"]
           ELSE playFallbackSound(h1)

\* A speak that enters the new utterance behind the ones not yet ended.
speak_Queued(h, id) ==
  IF ~speechEnabled THEN h
  ELSE [h EXCEPT !.speeches = Bump(h.speeches, id),
                 !.queue = Append(h.queue, id),
                 !.started = id]

\* speak(text): cancel() empties the synthesizer's queue, speak() enters
\* the new utterance
speak(h, id) ==
  IF ~speechEnabled THEN h
  ELSE [h EXCEPT !.speeches = Bump(h.speeches, id),
                 !.cancelled = Range(h.queue),
                 !.queue = <<id>>,
                 !.started = id]

\* newOrderNotification.data.customerName on a new_order frame without data
ThrowsTypeError(n) == n.type = "new_order" /\ ~n.data

\* handleNotification of instance l.  The three branches on notification.type
\* each play a tone, speak and raise one toast; the new_order branch reads
\* notification.data between the tone and the utterance.
handleNotification(h, l, n) ==
  LET h1 == [h EXCEPT !.calls = Bump(h.calls, <<l, n.id>>),
                      !.invoked = Append(h.invoked, l)]
  IN  IF AlreadyShown(h1.window, n.id) THEN h1
      ELSE LET h2 == [h1 EXCEPT !.window = Append(h1.window, n.id),
                                !.accepted = Append(h1.accepted, n.id),
                                !.fired = TRUE]
           IN  IF \E k \in 1..Len(h2.g.notifications) : h2.g.notifications[k].id = n.id
               THEN h2
               ELSE LET h3 == playNotificationSound(
                                [h2 EXCEPT
                                   !.g = [h2.g EXCEPT
                                            !.notifications = Prepend(h2.g.notifications, n),
                                            !.unreadCount = h2.g.unreadCount + 1]],
                                n.id, n.type)
                    IN  IF ThrowsTypeError(n) THEN [h3 EXCEPT !.thrown = TRUE]
                        ELSE [speak(h3, n.id) EXCEPT !.toasts = Bump(h3.toasts, n.id)]

\* A fan-out that runs the callbacks from the last registered to the first.
RECURSIVE FanOut_Reversed(_, _, _)
FanOut_Reversed(h, cbs, n) ==
  IF cbs = <<>> \/ h.thrown THEN h
  ELSE FanOut_Reversed(handleNotification(h, cbs[Len(cbs)], n),
                       SubSeq(cbs, 1, Len(cbs) - 1), n)

\* this.notificationCallbacks.forEach(callback => callback(notification));
\* an exception leaves forEach at once.
RECURSIVE FanOut(_, _, _)
FanOut(h, cbs, n) ==
  IF cbs = <<>> \/ h.thrown THEN h
  ELSE FanOut(handleNotification(h, Head(cbs), n), Tail(cbs), n)

\* The effect of lines 207-215 after a re-render that changed
\* handleNotification: every mounted instance unsubscribes and subscribes
\* again, cleanups first, in component order.
Resubscribed(fired, cbs) == IF fired THEN Ascending(mounted) ELSE cbs

\* socket.on('notification', ...) on socket s; play is what audio.play()
\* does if the frame gets as far as a tone
DeliverPlay(s, n, play) ==
  /\ sockSt[s] = "connected"
  /\ \A l \in Listeners : Count(calls, <<l, n.id>>) < MaxCalls
  /\ AlreadyShown(globalShownToasts, n.id) \/ Occurrences(accepted, n.id) < MaxAccepts
  /\ \E h \in {FanOut([Hx EXCEPT !.play = play], notificationCallbacks, n)} :
         /\ globalShownToasts' = h.window
         /\ globalNotificationState' = h.g
         /\ local' = IF h.g # globalNotificationState
                     THEN Broadcast(local, mounted, h.g) ELSE local
         /\ calls' = h.calls
         /\ tones' = h.tones
         /\ speeches' = h.speeches
         /\ toasts' = h.toasts
         /\ accepted' = h.accepted
         /\ invoked' = h.invoked
         /\ speechQueue' = h.queue
         /\ lastStarted' = h.started
         /\ cancelled' = h.cancelled
         /\ lastSound' = h.sound
         /\ toneOf' = h.toneOf
         /\ lastOp' = [Op("notification") EXCEPT
                         !.reason = IF h.thrown THEN "TypeError" ELSE "none"]
         /\ notificationCallbacks' = Resubscribed(h.fired, notificationCallbacks)
         /\ connectionCallbacks' = Resubscribed(h.fired, connectionCallbacks)
  /\ UNCHANGED storeVars
  /\ NoFrames
  /\ notified' = <<>>
  /\ UNCHANGED <<token, connVars, retryVars, mounted, settingVars,
                 explicitlyDisconnected, audioContext>>

\* A frame whose tone plays
Deliver(s, n) == DeliverPlay(s, n, "plays")

\* this.notificationCallbacks.forEach(...) over an array the callbacks
\* splice while it runs: forEach visits index i of the array as it is when
\* it gets there.  The callback of a listener in unsub passes the frame to
\* handleNotification and then calls the handle onNotification returned
\* (indexOf, splice).
RECURSIVE forEachLive(_, _, _, _, _)
forEachLive(h, cbs, i, n, unsub) ==
  IF i > Len(cbs) \/ h.thrown THEN [h |-> h, cbs |-> cbs]
  ELSE forEachLive(handleNotification(h, cbs[i], n),
                   IF cbs[i] \in unsub THEN Remove(cbs, cbs[i]) ELSE cbs,
                   i + 1, n, unsub)

\* socket.on('notification', ...) on socket s when the callbacks of the
\* listeners in unsub unsubscribe themselves
DeliverUnsubscribing(s, n, unsub) ==
  /\ sockSt[s] = "connected"
  /\ unsub \subseteq Range(notificationCallbacks)
  /\ \A l \in Listeners : Count(calls, <<l, n.id>>) < MaxCalls
  /\ AlreadyShown(globalShownToasts, n.id) \/ Occurrences(accepted, n.id) < MaxAccepts
  /\ \E r \in {forEachLive(Hx, notificationCallbacks, 1, n, unsub)} :
         /\ globalShownToasts' = r.h.window
         /\ globalNotificationState' = r.h.g
         /\ local' = IF r.h.g # globalNotificationState
                     THEN Broadcast(local, mounted, r.h.g) ELSE local
         /\ calls' = r.h.calls
         /\ tones' = r.h.tones
         /\ speeches' = r.h.speeches
         /\ toasts' = r.h.toasts
         /\ accepted' = r.h.accepted
         /\ invoked' = r.h.invoked
         /\ speechQueue' = r.h.queue
         /\ lastStarted' = r.h.started
         /\ cancelled' = r.h.cancelled
         /\ lastSound' = r.h.sound
         /\ toneOf' = r.h.toneOf
         /\ lastOp' = [Op("notification") EXCEPT
                         !.reason = IF r.h.thrown THEN "TypeError" ELSE "none"]
         /\ notificationCallbacks' = Resubscribed(r.h.fired, r.cbs)
         /\ connectionCallbacks' = Resubscribed(r.h.fired, connectionCallbacks)
  /\ UNCHANGED storeVars
  /\ NoFrames
  /\ notified' = <<>>
  /\ UNCHANGED <<token, connVars, retryVars, mounted, settingVars,
                 explicitlyDisconnected, audioContext>>

\* What audio.play() may do: start the tone, return a promise that rejects
\* (no user gesture yet, unsupported source), or throw.
PlayOutcomes == {"plays", "rejects", "throws"}

\* The utterance of testSpeech()
TestUtterance == 0

\* testSound(): soundNotificationService.playNotificationSound('new_order')
testSound(play) ==
  /\ mounted # {}
  /\ \E h \in {playNotificationSound([Hx EXCEPT !.play = play], TestUtterance,
                                      "new_order")} :
        lastSound' = h.sound
  /\ invoked' = <<>>
  /\ UNCHANGED <<speechQueue, lastStarted, cancelled, audioContext, toneOf>>
  /\ UNCHANGED storeVars
  /\ NoFrames
  /\ notified' = <<>>
  /\ lastOp' = Op("hook")
  /\ UNCHANGED <<token, connVars, retryVars, cbVars, hookVars, settingVars, alertVars,
                 explicitlyDisconnected>>

\* testSpeech(): speechNotificationService.testSpeech()
testSpeech ==
  /\ mounted # {}
  /\ \E h \in {speak(Hx, TestUtterance)} :
        /\ speechQueue' = h.queue
        /\ lastStarted' = h.started
        /\ cancelled' = h.cancelled
  /\ invoked' = <<>>
  /\ UNCHANGED <<audioContext, lastSound, toneOf>>
  /\ UNCHANGED storeVars
  /\ NoFrames
  /\ notified' = <<>>
  /\ lastOp' = Op("hook")
  /\ UNCHANGED <<token, connVars, retryVars, cbVars, hookVars, settingVars, alertVars,
                 explicitlyDisconnected>>

\* utterance.onend: the synthesizer finished the utterance it was speaking
UtteranceEnds ==
  /\ speechQueue # <<>>
  /\ speechQueue' = Tail(speechQueue)
  /\ invoked' = <<>>
  /\ UNCHANGED <<lastStarted, cancelled, audioContext, lastSound, toneOf>>
  /\ UNCHANGED storeVars
  /\ NoFrames
  /\ notified' = <<>>
  /\ lastOp' = Op("hook")
  /\ UNCHANGED <<token, connVars, retryVars, cbVars, hookVars, settingVars, alertVars,
                 explicitlyDisconnected>>

\* A cleanup that empties the window once it holds more than 100 ids.
cleanupInterval_KeepsNone ==
  /\ mounted # {}
  /\ LET trim == Len(globalShownToasts) > ToastCap
     IN  /\ globalShownToasts' = IF trim THEN <<>> ELSE globalShownToasts
         /\ notificationCallbacks' = Resubscribed(trim, notificationCallbacks)
         /\ connectionCallbacks' = Resubscribed(trim, connectionCallbacks)
  /\ UNCHANGED storeVars
  /\ NoFrames
  /\ notified' = <<>>
  /\ NoDispatch
  /\ lastOp' = Op("hook")
  /\ UNCHANGED <<token, connVars, retryVars, mounted, globalNotificationState, local,
                 settingVars, alertVars, explicitlyDisconnected>>

\* the setInterval callback of lines 219-229
cleanupInterval ==
  /\ mounted # {}
  /\ LET trim == Len(globalShownToasts) > ToastCap
     IN  /\ globalShownToasts' =
               IF trim
               THEN SubSeq(globalShownToasts, Len(globalShownToasts) - ToastCap + 1,
                           Len(globalShownToasts))
               ELSE globalShownToasts
         /\ notificationCallbacks' = Resubscribed(trim, notificationCallbacks)
         /\ connectionCallbacks' = Resubscribed(trim, connectionCallbacks)
  /\ UNCHANGED storeVars
  /\ NoFrames
  /\ notified' = <<>>
  /\ NoDispatch
  /\ lastOp' = Op("hook")
  /\ UNCHANGED <<token, connVars, retryVars, mounted, globalNotificationState, local,
                 settingVars, alertVars, explicitlyDisconnected>>

\* markAsRead(notificationId)
markAsRead(id) ==
  /\ mounted # {}
  /\ LET g == [globalNotificationState EXCEPT
                 !.notifications =
                    [k \in 1..Len(@) |-> IF @[k].id = id
                                         THEN [@[k] EXCEPT !.isRead = TRUE] ELSE @[k]],
                 !.unreadCount = IF @ - 1 > 0 THEN @ - 1 ELSE 0]
     IN  /\ globalNotificationState' = g
         /\ local' = Broadcast(local, mounted, g)
  /\ UNCHANGED storeVars
  /\ NoFrames
  /\ notified' = <<>>
  /\ NoDispatch
  /\ lastOp' = Op("hook")
  /\ UNCHANGED <<token, connVars, retryVars, cbVars, mounted, globalShownToasts,
                 settingVars, alertVars, explicitlyDisconnected>>

\* markAllAsRead()
markAllAsRead ==
  /\ mounted # {}
  /\ LET g == [globalNotificationState EXCEPT
                 !.notifications = [k \in 1..Len(@) |-> [@[k] EXCEPT !.isRead = TRUE]],
                 !.unreadCount = 0]
     IN  /\ globalNotificationState' = g
         /\ local' = Broadcast(local, mounted, g)
  /\ UNCHANGED storeVars
  /\ NoFrames
  /\ notified' = <<>>
  /\ NoDispatch
  /\ lastOp' = Op("hook")
  /\ UNCHANGED <<token, connVars, retryVars, cbVars, mounted, globalShownToasts,
                 settingVars, alertVars, explicitlyDisconnected>>

\* clearNotifications()
clearNotifications ==
  /\ mounted # {}
  /\ LET g == [globalNotificationState EXCEPT !.notifications = <<>>, !.unreadCount = 0]
     IN  /\ globalNotificationState' = g
         /\ local' = Broadcast(local, mounted, g)
  /\ globalShownToasts' = <<>>
  /\ notificationCallbacks' = Resubscribed(TRUE, notificationCallbacks)
  /\ connectionCallbacks' = Resubscribed(TRUE, connectionCallbacks)
  /\ UNCHANGED storeVars
  /\ NoFrames
  /\ notified' = <<>>
  /\ NoDispatch
  /\ lastOp' = Op("hook")
  /\ UNCHANGED <<token, connVars, retryVars, mounted, settingVars, alertVars,
                 explicitlyDisconnected>>

\* setState(prev => ({...prev, isConnected: false, notifications: [], unreadCount: 0}))
ClearedLocal(c, i) == [c EXCEPT !.loc = [c.loc EXCEPT ![i] = EmptyState]]

\* The effect of lines 190-204 run by instance i
authEffect(c, i, tok, cbs, setters) ==
  IF tok THEN connectCall(c, tok)
  ELSE ClearedLocal(disconnectCall(c, cbs, setters), i)

RECURSIVE authEffects(_, _, _, _, _)
authEffects(c, order, tok, cbs, setters) ==
  IF order = <<>> THEN c
  ELSE authEffects(authEffect(c, Head(order), tok, cbs, setters),
                   Tail(order), tok, cbs, setters)

\* First render and effects of a new instance i, in the order the hook
\* declares them: setters (55), auth effect (190), listeners (207),
\* settings effect (235, which hands the global state to every setter).
Mount(i) ==
  /\ i \notin mounted
  /\ LET setters == mounted \cup {i}
         c0 == [Ctx EXCEPT !.loc = [local EXCEPT ![i] = globalNotificationState]]
         c1 == authEffect(c0, i, token, connectionCallbacks, setters)
     IN  SetCtx([c1 EXCEPT !.loc = Broadcast(c1.loc, setters, c1.g)])
  /\ mounted' = mounted \cup {i}
  /\ notificationCallbacks' = Append(notificationCallbacks, i)
  /\ connectionCallbacks' = Append(connectionCallbacks, i)
  /\ explicitlyDisconnected' = ~token
  /\ globalSettings' = ServiceSettings(notificationSettings, speechSettings)
  /\ UNCHANGED <<soundVolume, soundType, speechVoice, speechRate, storage>>
  /\ NoFrames
  /\ NoDispatch
  /\ lastOp' = Op("hook")
  /\ UNCHANGED <<token, retryVars, globalShownToasts, settingVars, alertVars>>

\* The effect cleanups of instance i
Unmount(i) ==
  /\ i \in mounted
  /\ mounted' = mounted \ {i}
  /\ notificationCallbacks' = Remove(notificationCallbacks, i)
  /\ connectionCallbacks' = Remove(connectionCallbacks, i)
  /\ local' = [local EXCEPT ![i] = EmptyState]
  /\ calls' = [k \in {x \in DOMAIN calls : x[1] # i} |-> calls[k]]
  /\ UNCHANGED storeVars
  /\ NoFrames
  /\ notified' = <<>>
  /\ NoDispatch
  /\ lastOp' = Op("hook")
  /\ UNCHANGED <<token, connVars, retryVars, globalNotificationState,
                 globalShownToasts, settingVars, tones, speeches, toasts, accepted,
                 explicitlyDisconnected>>

\* ------------------------------------------------------------- auth store
\* login() succeeded: set({user, token, isAuthenticated: true}); every
\* mounted instance then runs its auth effect.
login ==
  /\ ~token
  /\ token' = TRUE
  /\ SetCtx(authEffects(Ctx, Ascending(mounted), TRUE, connectionCallbacks, mounted))
  /\ explicitlyDisconnected' = IF mounted = {} THEN explicitlyDisconnected ELSE FALSE
  /\ UNCHANGED storeVars
  /\ NoFrames
  /\ NoDispatch
  /\ lastOp' = Op("login")
  /\ UNCHANGED <<retryVars, cbVars, mounted, globalShownToasts, settingVars, alertVars>>

\* logout(): set({user: null, token: null, isAuthenticated: false})
logout ==
  /\ token
  /\ token' = FALSE
  /\ SetCtx(authEffects(Ctx, Ascending(mounted), FALSE, connectionCallbacks, mounted))
  /\ explicitlyDisconnected' = IF mounted = {} THEN explicitlyDisconnected ELSE TRUE
  /\ UNCHANGED storeVars
  /\ NoFrames
  /\ NoDispatch
  /\ lastOp' = Op("logout")
  /\ UNCHANGED <<retryVars, cbVars, mounted, globalShownToasts, settingVars, alertVars>>

\* The page is loaded again: every module is evaluated anew, the services
\* read their settings from localStorage, the auth store its token.
Restart ==
  /\ LET snd == LoadedSound(storage)
         spc == LoadedSpeech(storage)
     IN  /\ soundEnabled' = snd.enabled
         /\ soundVolume' = snd.volume
         /\ soundType' = snd.soundType
         /\ speechEnabled' = spc.enabled
         /\ speechVoice' = spc.voice
         /\ speechRate' = spc.rate
         /\ globalSettings' = ServiceSettings(snd, spc)
  /\ socket' = IF token THEN 1 ELSE 0
  /\ sockSt' = [s \in Sockets |-> IF token /\ s = 1 THEN "connecting" ELSE "free"]
  /\ isConnected' = FALSE
  /\ fifthSockets' = {}
  /\ reconnectAttempts' = 0
  /\ reconnectDelay' = BaseReconnectDelay
  /\ timers' = <<>>
  /\ attemptsSinceConnect' = 0
  /\ notificationCallbacks' = <<>>
  /\ connectionCallbacks' = <<>>
  /\ mounted' = {}
  /\ globalNotificationState' = EmptyState
  /\ local' = [i \in Listeners |-> EmptyState]
  /\ globalShownToasts' = <<>>
  /\ explicitlyDisconnected' = FALSE
  /\ calls' = <<>>
  /\ sent' = <<>>
  /\ desiredRooms' = {AdminRoom}
  /\ notified' = <<>>
  /\ invoked' = <<>>
  /\ speechQueue' = <<>>
  /\ lastOp' = Op("restart")
  /\ UNCHANGED <<token, storage, audioContext, lastStarted, cancelled, lastSound, toneOf,
                 tones, speeches, toasts, accepted>>

\* ------------------------------------------------------------------ specs
\* State after module load: the service's constructor has run
\* initializeConnection() against the rehydrated auth store, the settings
\* are the stored ones, no component is mounted.
Init ==
  /\ token \in BOOLEAN
  /\ socket = IF token THEN 1 ELSE 0
  /\ sockSt = [s \in Sockets |-> IF token /\ s = 1 THEN "connecting" ELSE "free"]
  /\ isConnected = FALSE
  /\ reconnectAttempts = 0
  /\ reconnectDelay = BaseReconnectDelay
  /\ timers = <<>>
  /\ notificationCallbacks = <<>>
  /\ connectionCallbacks = <<>>
  /\ mounted = {}
  /\ globalNotificationState = EmptyState
  /\ local = [i \in Listeners |-> EmptyState]
  /\ globalShownToasts = <<>>
  /\ soundEnabled \in BOOLEAN
  /\ speechEnabled \in BOOLEAN
  /\ lastOp = Op("init")
  /\ attemptsSinceConnect = 0
  /\ fifthSockets = {}
  /\ explicitlyDisconnected = FALSE
  /\ calls = <<>>
  /\ tones = <<>>
  /\ speeches = <<>>
  /\ toasts = <<>>
  /\ accepted = <<>>
  /\ sent = <<>>
  /\ desiredRooms = {AdminRoom}
  /\ notified = <<>>
  /\ invoked = <<>>
  /\ speechQueue = <<>>
  /\ lastStarted = 0
  /\ cancelled = {}
  /\ audioContext \in BOOLEAN
  /\ lastSound = "off"
  /\ toneOf = <<>>
  /\ soundVolume = DefaultVolume
  /\ soundType = "default"
  /\ speechVoice = "default"
  /\ speechRate = DefaultRate
  /\ storage = LET st1 == IF soundEnabled THEN <<>>
                          ELSE setSettings(<<>>, notificationSettings)
               IN  IF speechEnabled THEN st1 ELSE updateSettings(st1, speechSettings)
  /\ globalSettings = ServiceSettings(notificationSettings, speechSettings)

\* NotificationData: id, type, whether the optional data is there, isRead
Frame(id) == [id |-> id, isRead |-> FALSE, type |-> "info", data |-> FALSE]

NewOrder(id, data) == [Frame(id) EXCEPT !.type = "new_order", !.data = data]

OrderUpdate(id) == [Frame(id) EXCEPT !.type = "order_update"]

\* The id of the next frame of a stream that numbers its frames 1, 2, ...
NextFresh == Cardinality(Range(accepted)) + 1

\* The connection service under every call of its public interface and
\* every transport event.
NextService ==
  \/ login
  \/ logout
  \/ connect
  \/ disconnect
  \/ TimerFire
  \/ \E s \in Sockets : SocketConnect(s)
  \/ \E s \in Sockets, final \in BOOLEAN : SocketConnectError(s, final)
  \/ \E s \in Sockets, reason \in DisconnectReasons : SocketDisconnect(s, reason)

\* The hook instances, the auth changes they react to and the frames
\* delivered to them over the sockets that connected.
NextHook ==
  \/ \E i \in Listeners : Mount(i)
  \/ \E i \in Listeners : Unmount(i)
  \/ login
  \/ logout
  \/ \E s \in Sockets : SocketConnect(s)
  \/ \E s \in Sockets, id \in Ids : Deliver(s, Frame(id))
  \/ \E id \in Ids : markAsRead(id)
  \/ markAllAsRead
  \/ clearNotifications
  \/ cleanupInterval

\* The connection service with a host that also joins and leaves rooms.
NextRooms ==
  \/ login
  \/ connect
  \/ disconnect
  \/ TimerFire
  \/ \E s \in Sockets : SocketConnect(s)
  \/ \E s \in Sockets, final \in BOOLEAN : SocketConnectError(s, final)
  \/ \E s \in Sockets, reason \in DisconnectReasons : SocketDisconnect(s, reason)
  \/ \E r \in Rooms : joinRoom(r)
  \/ \E r \in Rooms : leaveRoom(r)

\* The connection service with hook instances that mount and unmount
\* while sockets connect, fail and close.
NextIndicator ==
  \/ \E i \in Listeners : Mount(i)
  \/ \E i \in Listeners : Unmount(i)
  \/ login
  \/ logout
  \/ connect
  \/ disconnect
  \/ TimerFire
  \/ \E s \in Sockets : SocketConnect(s)
  \/ \E s \in Sockets, final \in BOOLEAN : SocketConnectError(s, final)
  \/ \E s \in Sockets, reason \in DisconnectReasons : SocketDisconnect(s, reason)

\* The fan-out of a stream of frames with fresh ids 1, 2, ... and of
\* redeliveries of the first to the mounted instances; a new_order frame
\* may come without its data.
NextFanOut ==
  \/ \E i \in Listeners : Mount(i)
  \/ \E i \in Listeners : Unmount(i)
  \/ login
  \/ \E s \in Sockets : SocketConnect(s)
  \/ NextFresh <= MaxIds /\ socket # 0 /\ Deliver(socket, Frame(NextFresh))
  \/ NextFresh <= MaxIds /\ socket # 0 /\ Deliver(socket, NewOrder(NextFresh, FALSE))
  \/ socket # 0 /\ Deliver(socket, Frame(1))

\* The settings dialog of a mounted instance and reloads of the page.
NextSettings ==
  \/ Mount(1)
  \/ \E fields \in SUBSET SettingFields, v \in SettingValues :
        updateSoundSettings(fields, v)
  \/ Restart

\* The object the two switches of the settings dialog are taken from
Switches == CHOOSE v \in SettingValues : TRUE

\* One mounted instance, a stream of frames of every kind whose tone may
\* fail to play, the two switches of the settings dialog and its test
\* buttons.
NextAlerts ==
  \/ Mount(1)
  \/ socket # 0 /\ SocketConnect(socket)
  \/ NextFresh <= MaxIds /\ socket # 0 /\ Deliver(socket, Frame(NextFresh))
  \/ \E play \in PlayOutcomes, data \in BOOLEAN :
        NextFresh <= MaxIds /\ socket # 0
          /\ DeliverPlay(socket, NewOrder(NextFresh, data), play)
  \/ \E b \in BOOLEAN :
        updateSoundSettings({"soundEnabled"}, [Switches EXCEPT !.soundEnabled = b])
  \/ \E b \in BOOLEAN :
        updateSoundSettings({"speechEnabled"}, [Switches EXCEPT !.speechEnabled = b])
  \/ \E play \in PlayOutcomes : testSound(play)
  \/ testSpeech
  \/ UtteranceEnds

\* The tones available in the settings dialog
SoundTypes == {"default", "chime", "bell", "notification"}

\* One mounted instance, a stream of frames of the three kinds and changes
\* of the tone in the settings dialog.
NextTones ==
  \/ Mount(1)
  \/ socket # 0 /\ SocketConnect(socket)
  \/ NextFresh <= MaxIds + ExtraIds /\ socket # 0 /\ Deliver(socket, Frame(NextFresh))
  \/ NextFresh <= MaxIds + ExtraIds /\ socket # 0
        /\ Deliver(socket, NewOrder(NextFresh, TRUE))
  \/ NextFresh <= MaxIds + ExtraIds /\ socket # 0
        /\ Deliver(socket, OrderUpdate(NextFresh))
  \/ \E t \in SoundTypes :
        updateSoundSettings({"soundType"}, [Switches EXCEPT !.soundType = t])

\* The same stream with a host that clears the notifications once the
\* window is full.
NextList ==
  \/ Mount(1)
  \/ socket # 0 /\ SocketConnect(socket)
  \/ NextFresh <= ToastCap + ExtraIds /\ socket # 0 /\ Deliver(socket, Frame(NextFresh))
  \/ socket # 0 /\ Deliver(socket, Frame(1))
  \/ cleanupInterval
  \/ NextFresh > ToastCap /\ clearNotifications

\* The fan-out to listeners that may unsubscribe from inside their
\* callback.
NextUnsubscribe ==
  \/ \E i \in Listeners : Mount(i)
  \/ socket # 0 /\ SocketConnect(socket)
  \/ \E unsub \in SUBSET Listeners :
        NextFresh <= MaxIds /\ socket # 0
          /\ DeliverUnsubscribing(socket, Frame(NextFresh), unsub)
  \/ \E unsub \in SUBSET Listeners :
        socket # 0 /\ DeliverUnsubscribing(socket, Frame(1), unsub)

Next ==
  \/ NextUnsubscribe
  \/ NextService \/ NextHook \/ NextRooms \/ NextIndicator \/ NextFanOut
  \/ NextSettings \/ NextAlerts \/ NextTones \/ NextList

\* The whole system.
Spec == Init /\ [][Next]_vars

\* Both alert channels switched on, as stored by default.
InitDefaults == Init /\ soundEnabled = TRUE /\ speechEnabled = TRUE /\ audioContext = TRUE

\* The connection service alone: no hook instance is mounted, the host
\* calls connect() and disconnect() at any time.
SpecService == InitDefaults /\ [][NextService]_vars

SpecRooms == InitDefaults /\ [][NextRooms]_vars

SpecIndicator == InitDefaults /\ [][NextIndicator]_vars

SpecFanOut == InitDefaults /\ [][NextFanOut]_vars

SpecSettings == Init /\ [][NextSettings]_vars

SpecAlerts == Init /\ [][NextAlerts]_vars

SpecTones == InitDefaults /\ [][NextTones]_vars

SpecUnsubscribe == InitDefaults /\ [][NextUnsubscribe]_vars

\* The hook instances over sockets that connect and stay connected until
\* the client closes them.
SpecHook == InitDefaults /\ [][NextHook]_vars

\* The shown-toasts window and the notification list of one mounted
\* instance under a stream of frames with fresh ids 1, 2, 3, ...,
\* redeliveries of the first id and the cleanup timer.
NextWindow ==
  \/ Mount(1)
  \/ login
  \/ \E s \in Sockets : SocketConnect(s)
  \/ NextFresh <= ToastCap + ExtraIds /\ socket # 0 /\ Deliver(socket, Frame(NextFresh))
  \/ socket # 0 /\ Deliver(socket, Frame(1))
  \/ cleanupInterval

SpecWindow == InitDefaults /\ [][NextWindow]_vars

SpecList == InitDefaults /\ [][NextList]_vars

\* ----------------------------------------------------------------- claims

\* C1: for every id e and every registered listener, the listener's
\* notification callback is invoked exactly once for e, however often the
\* transport delivers the frame carrying e.
C1_EachListenerOnce == \A k \in DOMAIN calls : calls[k] = 1

\* C2: whatever the number of mounted instances and of deliveries of an id,
\* exactly one tone, one utterance and one toast are dispatched for it
\* (sound and speech enabled).
C2_OneAlertPerId ==
  \A id \in Range(accepted) :
    /\ Count(tones, id) = 1
    /\ Count(speeches, id) = 1
    /\ Count(toasts, id) = 1

\* C3: over a whole run the shown-toasts check accepts each id once; every
\* later handleNotification call with that id is rejected.
C3_AcceptedOnce == \A id \in Range(accepted) : Occurrences(accepted, id) = 1

\* C4: the window holds exactly the min(k, 100) most recently accepted ids,
\* k the number of distinct ids accepted so far; it never holds more than
\* 100, the earliest-inserted id leaving first, as part of the insertion.
C4_WindowIsLastHundred ==
  LET k == Cardinality(Range(accepted))
      n == Min(k, 100)
  IN  /\ Len(globalShownToasts) <= 100
      /\ globalShownToasts = SubSeq(accepted, Len(accepted) - n + 1, Len(accepted))

\* C5: at most one physical connection exists at any time: at most one
\* socket created by initializeConnection is not yet closed.
C5_OneConnection == Cardinality(Live(sockSt)) <= 1

\* C6: connect() is a no-op when the service's socket is connected or is
\* still in its handshake: no socket is created.
C6_ConnectIdempotent ==
  [][(connect /\ socket # 0 /\ sockSt[socket] \in {"connecting", "connected"})
       => (socket' = socket /\ sockSt' = sockSt)]_vars

\* C7: after disconnect() no socket is created until the next connect(),
\* even when a reconnect timer was pending and a token is present.
C7_DisconnectCancelsTimer == explicitlyDisconnected => socket = 0

\* C8: the n-th consecutive reconnect since the last successful connect,
\* n = 1..5, is scheduled with delay 1000 * 2^(n-1) ms.
C8_DelayTable == <<1000, 2000, 4000, 8000, 16000>>

C8_BackoffDelays ==
  \A i \in 1..Len(timers) :
    /\ timers[i].k \in 1..5
    /\ timers[i].delay = C8_DelayTable[timers[i].k]

C8_FifthScheduled == \E i \in 1..Len(timers) : timers[i].k = 5 /\ timers[i].live

C10_AnyCloseReconnects ==
  (lastOp.op = "disconnect_event" /\ ~lastOp.full) => timers # <<>>

\* C11: a handshake the server rejects (final connect_error, as for a bad
\* token) is terminal: the step leaves the service disconnected, sets no
\* reconnect timer and does not count a reconnect attempt.
C11_AuthFailureTerminal ==
  [][(\E s \in Sockets : SocketConnectError(s, TRUE))
       => (~isConnected' /\ timers' = timers /\ reconnectAttempts' = reconnectAttempts)]_vars

\* C12: every 'connect' event (the first and each later one) is answered
\* with join_room frames for exactly the rooms wanted at that moment: the
\* admin room the service asks for itself and every room passed to joinRoom,
\* less those passed to leaveRoom since.
C12_JoinsDesiredRooms ==
  lastOp.op = "connect_event"
    => {sent[i].room : i \in {j \in 1..Len(sent) : sent[j].ev = "join_room"}} = desiredRooms

\* C13: while an instance is mounted the indicator it shows
\* (globalNotificationState.isConnected) is true exactly when the service's
\* current socket is connected, whatever older sockets raise.
C13_IndicatorMatchesSocket ==
  mounted # {} => (globalNotificationState.isConnected <=> SocketConnected(Ctx))

\* The connection state of the service as the host sees it.
ConnStateOf(sock, st, tm) ==
  IF sock # 0 /\ st[sock] = "connected" THEN "Connected"
  ELSE IF sock # 0 /\ st[sock] = "connecting" THEN "Connecting"
  ELSE IF tm # <<>> THEN "Reconnecting"
  ELSE "Disconnected"

\* C14: every step that changes the connection state runs every callback
\* registered with onConnectionChange, and a step runs no callback that was
\* not registered when it began (none after its unsubscribe).
C14_CallbackOnEveryTransition ==
  [][/\ ConnStateOf(socket', sockSt', timers') # ConnStateOf(socket, sockSt, timers)
        => \A l \in Range(connectionCallbacks) : l \in Range(notified')
     /\ Range(notified') \subseteq Range(connectionCallbacks)]_vars

\* C15: when a callback throws during the fan-out of a frame, every other
\* callback registered for it is still run.
C15_ThrowDoesNotStopFanOut ==
  (lastOp.op = "notification" /\ lastOp.reason = "TypeError")
    => \A l \in Range(notificationCallbacks) : l \in Range(invoked)

\* The place of listener l in a list of callbacks.
Pos(cbs, l) == CHOOSE k \in 1..Len(cbs) : cbs[k] = l

\* C16: the callbacks a frame's fan-out runs are run in the order of their
\* registration: of two that ran, the one registered first ran first.
C16_RegistrationOrder ==
  [][lastOp'.op = "notification"
       => \A i, j \in 1..Len(invoked') :
            i < j => Pos(notificationCallbacks, invoked'[i])
                       < Pos(notificationCallbacks, invoked'[j])]_vars

C16_LaterInstanceFirst == lastOp.op = "notification" /\ invoked = <<2, 1>>

C18_ChannelsIndependent ==
  [][(lastOp'.op = "notification" /\ accepted' # accepted)
       => LET id == accepted'[Len(accepted')]
          IN  /\ Count(tones', id) - Count(tones, id) = (IF soundEnabled THEN 1 ELSE 0)
              /\ Count(speeches', id) - Count(speeches, id)
                   = (IF speechEnabled THEN 1 ELSE 0)
              /\ Count(toasts', id) - Count(toasts, id) = 1]_vars

\* C19: at most one utterance is speaking or queued, and it is the one
\* started last.
C19_SingleFlight ==
  /\ Len(speechQueue) <= 1
  /\ speechQueue # <<>> => speechQueue = <<lastStarted>>

C19_NewestReplacedSpeaking == speechQueue = <<2>> /\ cancelled = {1}

\* C20: a playNotificationSound call made with sound enabled never ends
\* in silence: when the tone does not play a beep is produced instead.
C20_FallbackBeep == lastSound # "silent"

\* C21: the tone chosen for an order_update event is another audio element
\* than the tone chosen for a new_order event.
C21_ToneByKind ==
  {"new_order", "order_update"} \subseteq DOMAIN toneOf
    => toneOf["order_update"] # toneOf["new_order"]

\* C22: the shown-toasts window changes only in the accept step of
\* handleNotification; the cleanup timer, clearNotifications, markAsRead,
\* markAllAsRead, mounts and unmounts and connection changes leave it as
\* it is.
C22_OnlyAcceptMutatesWindow ==
  [][globalShownToasts' # globalShownToasts
       => (lastOp'.op = "notification" /\ accepted' # accepted)]_vars

\* C23: while disconnect() was called and connect() not since, no frame
\* reaches a notification callback.
C23_NoDeliveryAfterDisconnect ==
  (explicitlyDisconnected /\ lastOp.op = "notification") => invoked = <<>>

\* ~isRead entries of a notifications list
Unread(list) == {k \in 1..Len(list) : ~list[k].isRead}

\* C24: unreadCount is the number of entries of the notifications list
\* that are not read.
C24_UnreadCountMatchesList ==
  globalNotificationState.unreadCount
    = Cardinality(Unread(globalNotificationState.notifications))

\* The place of the last occurrence of x in q.
LastPos(q, x) ==
  LET at == {i \in 1..Len(q) : q[i] = x}
  IN  CHOOSE i \in at : \A j \in at : j <= i

\* C25: the notifications list holds at most 50 entries with pairwise
\* distinct ids, the one accepted later before the one accepted earlier;
\* an accept with 50 entries present puts the new entry first and keeps
\* the 49 newest, so exactly the oldest leaves.
C25_ListNewestFifty ==
  [][LET old == globalNotificationState.notifications
         list == globalNotificationState'.notifications
     IN  /\ Len(list) <= 50
         /\ Cardinality({list[k].id : k \in 1..Len(list)}) = Len(list)
         /\ \A i \in 1..(Len(list) - 1) :
              LastPos(accepted', list[i].id) > LastPos(accepted', list[i + 1].id)
         /\ (lastOp'.op = "notification" /\ accepted' # accepted /\ Len(old) = 50)
              => /\ list[1].id = accepted'[Len(accepted')]
                 /\ Tail(list) = SubSeq(old, 1, 49)]_vars

C25_OldestDropped ==
  /\ lastOp.op = "notification"
  /\ Len(globalNotificationState.notifications) = 50
  /\ globalNotificationState.notifications[50].id = 2
  /\ globalNotificationState.notifications[1].id = 51

\* C26: the id of every entry of the notifications list is in the window,
\* and every id the window check accepts enters the list (the lookup in
\* the list that follows finds nothing).
C26_ListWithinWindow ==
  [][/\ \A k \in 1..Len(globalNotificationState'.notifications) :
          globalNotificationState'.notifications[k].id \in Range(globalShownToasts')
     /\ (lastOp'.op = "notification" /\ accepted' # accepted)
          => /\ globalNotificationState'.notifications # <<>>
             /\ globalNotificationState'.notifications[1].id
                  = accepted'[Len(accepted')]]_vars

C26_TrimmedWindowFullList ==
  /\ lastOp.op = "hook"
  /\ Len(globalShownToasts) = ToastCap
  /\ Head(globalShownToasts) = 2
  /\ Len(globalNotificationState.notifications) = 50

\* C27: the state every mounted instance renders (isConnected,
\* notifications, unreadCount) is the shared globalNotificationState, also
\* after a logout and the login that follows.
C27_LocalMatchesGlobal == \A i \in mounted : local[i] = globalNotificationState

\* C28: in the fan-out of a frame every listener that does not unsubscribe
\* is run, whichever other listeners unsubscribe from inside their
\* callback.
C28_UnsubscribeDuringFanOut ==
  [][\A unsub \in SUBSET Listeners :
       (socket # 0 /\ \E id \in Ids : DeliverUnsubscribing(socket, Frame(id), unsub))
         => \A l \in Range(notificationCallbacks) \ unsub : l \in Range(invoked')]_vars

\* C29: the settings the hook exposes are, field by field, the settings
\* the sound and speech services hold.
C29_ExposedSettingsMatchServices ==
  globalSettings = ServiceSettings(notificationSettings, speechSettings)

\* C30: when the five automatic attempts are used up (no timer is left)
\* and the host calls disconnect() and then connect(), a failure of the
\* connection that connect() opened schedules a reconnect again, with a
\* delay of 1000 ms.
C30_ReconnectBudgetRestored ==
  [][(/\ lastOp.op = "connect" /\ lastOp.reason = "after disconnect"
      /\ reconnectAttempts = maxReconnectAttempts
      /\ timers = <<>>
      /\ socket # 0
      /\ \E final \in BOOLEAN : SocketConnectError(socket, final))
       => /\ Len(timers') = 1
          /\ timers'[1].delay = BaseReconnectDelay]_vars

====
